---- MODULE Spec2Model ----
(***************************************************************************)
(* The JSON tokenizer of src/src/tokenizer/mod.rs as a state machine.      *)
(*                                                                         *)
(* A character is a string of length one; the input is a sequence of       *)
(* characters fixed at construction.  The Chars iterator `source` is the   *)
(* number of characters it has yielded so far; a clone of it is a plain    *)
(* index into the input.  One step of the machine is one iteration of the  *)
(* loop of tokenize(): a whole call of next_token().                       *)
(***************************************************************************)
EXTENDS Integers, Sequences, FiniteSets, TLC

VARIABLES
    input,            \* the characters handed to Tokenizer::new
    source,           \* Tokenizer.source: how many characters were yielded
    current_col,      \* Tokenizer.current_col
    current_line,     \* Tokenizer.current_line
    token_start_col,  \* Tokenizer.token_start_col
    current_char,     \* Tokenizer.current_char (None or a character)
    tokens,           \* the vector tokenize() is filling
    pc,               \* "tokenize" inside the loop, "returned" after it
    entry,            \* value of source when the latest next_token() began
    calls,            \* how many times tokenize() was called on this Tokenizer
    resume,           \* value of source when the current tokenize() began
    lookahead         \* the cloned iterator of the latest tokenize_string()

vars == <<input, source, current_col, current_line, token_start_col,
          current_char, tokens, pc, entry, calls, resume, lookahead>>

----------------------------------------------------------------------------
(* Bounds of the model *)

MaxNumLen == 6
MaxStrLen == 7
MaxLen == 4
MaxLexLen == 4
MaxPunctLen == 4
MaxCtlLen == 6
MaxCalls == 2

----------------------------------------------------------------------------
(* Characters *)

None == "None"

Digit == {"0", "1", "2", "3", "4", "5", "6", "7", "8", "9"}

HexDigit == Digit \cup {"a", "b", "c", "d", "e", "f", "A", "B", "C", "D", "E", "F"}

Control == {"\t", "\n", "\f", "\r"}

Whitespace == {" ", "\t", "\n", "\r"}

SimpleEscape == {"\"", "\\", "/", "b", "f", "n", "r", "t"}

is_ascii_hexdigit(ch) == ch \in HexDigit

is_control(ch) == ch \in Control

\* The alphabets the inputs are drawn from.
NumChars == {"1", ".", "e", "-", "+", ","}

StrChars == {"\"", "\\", "u", "a"}

AllChars == {"1", ".", "e", "-", "+", ",", " ", "\"", "\\", "a", "{", "]", "\n"}

LexChars == {"1", ".", "-", ",", " ", "\"", "\\", "a", "{", "\n"}

PunctChars == {"{", "}", "[", "]", ":", ",", " ", "\t", "\n", "\r"}

CtlChars == {"\"", "\\", "a", "\n"}

----------------------------------------------------------------------------
(* Tokens *)

NoToken == [token_type |-> "None"]

Token(token_type, text, position) ==
    [token_type |-> token_type, text |-> text, position |-> position]

\* mutant of Structural: the two array brackets are exchanged
StructuralSwapped(ch) ==
    CASE ch = "{" -> "ObjectStart"
      [] ch = "}" -> "ObjectEnd"
      [] ch = "[" -> "ArrayEnd"
      [] ch = "]" -> "ArrayStart"
      [] ch = ":" -> "Colon"
      [] ch = "," -> "Comma"

Structural(ch) ==
    CASE ch = "{" -> "ObjectStart"
      [] ch = "}" -> "ObjectEnd"
      [] ch = "[" -> "ArrayStart"
      [] ch = "]" -> "ArrayEnd"
      [] ch = ":" -> "Colon"
      [] ch = "," -> "Comma"

----------------------------------------------------------------------------
(* The Tokenizer struct as a record, and the methods as operators that     *)
(* return the struct after the call together with the returned value.      *)

Self == [source |-> source, current_col |-> current_col,
         current_line |-> current_line, token_start_col |-> token_start_col,
         current_char |-> current_char]

\* self.source.clone().next()
Peek(t) == IF t.source < Len(input) THEN input[t.source + 1] ELSE None

\* mutant of next_char: the character is read from a clone of the iterator,
\* so the iterator itself does not move
next_char_on_clone(t) ==
    LET next == Peek(t) IN
    [t |-> [t EXCEPT !.current_col = @ + 1,
                     !.current_line = IF next = "\n" THEN @ + 1 ELSE @,
                     !.current_char = next],
     ret |-> next]

\* mutant of next_char: the column restarts on every line
next_char_line_columns(t) ==
    LET next == Peek(t) IN
    [t |-> [t EXCEPT !.current_col = IF next = "\n" THEN 0 ELSE @ + 1,
                     !.source = IF next = None THEN @ ELSE @ + 1,
                     !.current_line = IF next = "\n" THEN @ + 1 ELSE @,
                     !.current_char = next],
     ret |-> next]

next_char(t) ==
    LET next == Peek(t) IN
    [t |-> [t EXCEPT !.current_col = @ + 1,
                     !.source = IF next = None THEN @ ELSE @ + 1,
                     !.current_line = IF next = "\n" THEN @ + 1 ELSE @,
                     !.current_char = next],
     ret |-> next]

\* mutant of Advance: the loop also runs for the character already read
RECURSIVE AdvanceInclusive(_, _)
AdvanceInclusive(t, n) ==
    IF n < 0 THEN t ELSE AdvanceInclusive(next_char(t).t, n - 1)

\* for _ in 0..n { self.next_char(); }
RECURSIVE Advance(_, _)
Advance(t, n) == IF n <= 0 THEN t ELSE Advance(next_char(t).t, n - 1)

\* the digits the cloned iterator yields from index i on
RECURSIVE DigitRun(_)
DigitRun(i) ==
    IF i <= Len(input) /\ input[i] \in Digit
    THEN <<input[i]>> \o DigitRun(i + 1)
    ELSE <<>>

handle_integer(t) ==
    IF t.current_char = None
    THEN [some |-> FALSE, val |-> <<>>]
    ELSE [some |-> TRUE, val |-> <<t.current_char>> \o DigitRun(t.source + 1)]

\* lines 90-92 and 110-112: the sign is put back in front of the lexeme
Signed(positive, number) == IF positive THEN number ELSE <<"-">> \o number

\* line 89: the character after the integer part ends the number
EndsNumber(next) == next # "." /\ next # "e"

\* mutant of OnlyMarker: the check of line 100 is left out
OnlyMarkerNever(decimal_part) == FALSE

\* line 100: handle_integer returned only the '.' or 'e' it started on
OnlyMarker(decimal_part) == Len(decimal_part) = 1

\* lines 116-120 and 138-142
NumberType(is_float) == IF is_float THEN "Float" ELSE "Integer"

\* line 126
IsExponentSign(is_signed) == is_signed = "-" \/ is_signed = "+"

\* lines 123-143 and 149: the lookahead after the fraction was 'e'
Exponent(t3, number, is_float) ==
    LET t4 == next_char(t3).t
        is_signed == Peek(t4)
        sign == is_signed # None /\ IsExponentSign(is_signed)
        number1 == IF sign THEN Append(number, "e") ELSE number
        t5 == IF sign THEN next_char(t4).t ELSE t4
        decimal_part == handle_integer(t5)
    IN  IF decimal_part.some
        THEN [t |-> Advance(t5, Len(decimal_part.val) - 1),
              ret |-> Token(NumberType(is_float), number1 \o decimal_part.val,
                            t5.token_start_col)]
        ELSE [t |-> t5, ret |-> Token("Float", number1, t5.token_start_col)]

\* lines 96-150: the lookahead after the integer part was '.' or 'e'
Fraction(t1, positive, integer, is_float) ==
    LET t2 == next_char(t1).t
        decimal_part == handle_integer(t2)
    IN  IF ~decimal_part.some THEN [t |-> t2, ret |-> NoToken]
        ELSE IF OnlyMarker(decimal_part.val) THEN [t |-> t2, ret |-> NoToken]
        ELSE LET t3 == Advance(t2, Len(decimal_part.val) - 1)
                 number == Signed(positive, integer \o decimal_part.val)
                 next == Peek(t3)
             IN  IF next = None THEN [t |-> t3, ret |-> NoToken]
                 ELSE IF next # "e"
                 THEN [t |-> t3,
                       ret |-> Token(NumberType(is_float), number, t3.token_start_col)]
                 ELSE Exponent(t3, number, is_float)

tokenize_number(t, positive) ==
    LET number == handle_integer(t) IN
    IF ~number.some THEN [t |-> t, ret |-> NoToken]
    ELSE LET t1 == Advance(t, Len(number.val) - 1)
             next == Peek(t1)
         IN  IF next = None THEN [t |-> t1, ret |-> NoToken]
             ELSE IF EndsNumber(next)
             THEN [t |-> t1,
                   ret |-> Token("Integer", Signed(positive, number.val),
                                 t1.token_start_col)]
             ELSE Fraction(t1, positive, number.val, next = ".")

----------------------------------------------------------------------------
(* Strings *)

\* line 234
IsSimpleEscape(next) == next \in SimpleEscape

\* lines 238-247: the four hex digits of a \u escape, i of them still to read
RECURSIVE HexDigits(_, _, _)
HexDigits(t, escape, i) ==
    IF i = 0 THEN [t |-> t, some |-> TRUE, val |-> escape]
    ELSE LET r == next_char(t) IN
         IF r.ret = None THEN [t |-> r.t, some |-> FALSE, val |-> <<>>]
         ELSE IF ~is_ascii_hexdigit(r.ret)
         THEN [t |-> r.t, some |-> FALSE, val |-> <<>>]
         ELSE HexDigits(r.t, Append(escape, r.ret), i - 1)

handle_escapes(t) ==
    LET r == next_char(t) IN
    IF r.ret = None THEN [t |-> r.t, some |-> FALSE, val |-> <<>>]
    ELSE LET escape == <<"\\", r.ret>> IN
         IF IsSimpleEscape(r.ret) THEN [t |-> r.t, some |-> TRUE, val |-> escape]
         ELSE IF r.ret = "u" THEN HexDigits(r.t, escape, 4)
         ELSE [t |-> r.t, some |-> FALSE, val |-> <<>>]

\* mutant of EscapeSkip: the backslash is not discounted
EscapeSkipAll(escape) == Len(escape)

\* line 204
EscapeSkip(escape) == Len(escape) - 1

\* The cursor and the cloned iterator are in step at the head of an iteration:
\* the iterator is about to yield index i, and the cursor has consumed the
\* i - 1 characters before it plus the skip characters of the escape that
\* handle_escapes has just consumed.
InStep(t, i, skip) == t.source = i - 1 + skip

\* lines 189-217: the loop over the cloned iterator, which is at index i.
\* Besides the cursor and string_val the result records where the iterator
\* stopped (stop) and whether the two were in step at every iteration (sync).
RECURSIVE StringLoop(_, _, _, _)
StringLoop(t, i, skip, string_val) ==
    LET here == InStep(t, i, skip)
        Rest(loop) == [loop EXCEPT !.sync = @ /\ here]
    IN
    IF i > Len(input)
    THEN [t |-> t, val |-> string_val, control |-> FALSE, stop |-> i, sync |-> here]
    ELSE LET next == input[i] IN
         IF is_control(next)
         THEN [t |-> t, val |-> string_val, control |-> TRUE, stop |-> i, sync |-> here]
         ELSE IF skip > 0 THEN Rest(StringLoop(t, i + 1, skip - 1, string_val))
         ELSE IF next = "\\"
         THEN LET escape == handle_escapes(next_char(t).t) IN
              IF escape.some
              THEN Rest(StringLoop(escape.t, i + 1, EscapeSkip(escape.val),
                                   string_val \o escape.val))
              ELSE Rest(StringLoop(escape.t, i + 1, skip, string_val))
         ELSE IF next # "\""
         THEN Rest(StringLoop(next_char(t).t, i + 1, skip, Append(string_val, next)))
         ELSE [t |-> t, val |-> string_val, control |-> FALSE, stop |-> i, sync |-> here]

tokenize_string(t) ==
    LET loop == StringLoop(t, t.source + 1, 0, <<>>) IN
    IF loop.control THEN [t |-> loop.t, ret |-> NoToken]
    ELSE LET r == next_char(loop.t) IN
         IF r.ret = "\""
         THEN [t |-> r.t, ret |-> Token("String", loop.val, r.t.token_start_col)]
         ELSE [t |-> r.t, ret |-> NoToken]

----------------------------------------------------------------------------
(* The dispatcher *)

RECURSIVE skip_whitespaces(_)
skip_whitespaces(t) ==
    LET r == next_char(t) IN
    IF r.ret # None /\ r.ret \in Whitespace THEN skip_whitespaces(r.t) ELSE r

MarkStart(t) == [t EXCEPT !.token_start_col = t.current_col]

\* mutant of next_token: a leading '.' starts a number like a digit does
next_token_leading_dot(t) ==
    LET r == skip_whitespaces(t)
        ch == r.ret
    IN  IF ch = None THEN [t |-> r.t, ret |-> NoToken]
        ELSE IF ch \in {"{", "}", "[", "]", ":", ","}
        THEN [t |-> r.t, ret |-> Token(Structural(ch), <<>>, r.t.current_col)]
        ELSE IF ch \in Digit \cup {"."} THEN tokenize_number(MarkStart(r.t), TRUE)
        ELSE IF ch = "\"" THEN tokenize_string(MarkStart(r.t))
        ELSE IF ch = "-"
        THEN LET n == next_char(MarkStart(r.t)) IN
             IF n.ret # None THEN tokenize_number(n.t, FALSE)
             ELSE [t |-> n.t, ret |-> NoToken]
        ELSE [t |-> r.t, ret |-> NoToken]

next_token(t) ==
    LET r == skip_whitespaces(t)
        ch == r.ret
    IN  IF ch = None THEN [t |-> r.t, ret |-> NoToken]
        ELSE IF ch \in {"{", "}", "[", "]", ":", ","}
        THEN [t |-> r.t, ret |-> Token(Structural(ch), <<>>, r.t.current_col)]
        ELSE IF ch \in Digit THEN tokenize_number(MarkStart(r.t), TRUE)
        ELSE IF ch = "\"" THEN tokenize_string(MarkStart(r.t))
        ELSE IF ch = "-"
        THEN LET n == next_char(MarkStart(r.t)) IN
             IF n.ret # None THEN tokenize_number(n.t, FALSE)
             ELSE [t |-> n.t, ret |-> NoToken]
        ELSE [t |-> r.t, ret |-> NoToken]

----------------------------------------------------------------------------
(* The state machine: Tokenizer::new followed by tokenize() *)

RECURSIVE SeqsUpTo(_, _)
SeqsUpTo(S, n) ==
    IF n = 0 THEN {<<>>}
    ELSE LET shorter == SeqsUpTo(S, n - 1) IN
         shorter \cup {Append(s, c) : s \in {x \in shorter : Len(x) = n - 1}, c \in S}

New(in) ==
    /\ input = in
    /\ source = 0
    /\ current_col = 0
    /\ current_line = 1
    /\ token_start_col = 0
    /\ current_char = None
    /\ tokens = <<>>
    /\ pc = "tokenize"
    /\ entry = -1
    /\ calls = 1
    /\ resume = 0
    /\ lookahead = [string |-> FALSE, stop |-> 0, sync |-> TRUE]

Init == \E in \in SeqsUpTo(AllChars, MaxLen) : New(in)

InitNum == \E in \in SeqsUpTo(NumChars, MaxNumLen) : New(in)

InitStr == \E in \in SeqsUpTo(StrChars, MaxStrLen) : New(<<"\"">> \o in)

InitLex == \E in \in SeqsUpTo(LexChars, MaxLexLen) : New(in)

InitPunct == \E in \in SeqsUpTo(PunctChars, MaxPunctLen) : New(in)

InitCtl == \E in \in SeqsUpTo(CtlChars, MaxCtlLen) : New(<<"\"">> \o in)

Store(t) ==
    /\ source' = t.source
    /\ current_col' = t.current_col
    /\ current_line' = t.current_line
    /\ token_start_col' = t.token_start_col
    /\ current_char' = t.current_char

\* what the cloned iterator of tokenize_string does in the call of next_token()
\* that starts from t (nothing when the call does not scan a string)
StringTrace(t) ==
    LET r == skip_whitespaces(t) IN
    IF r.ret = "\""
    THEN LET loop == StringLoop(MarkStart(r.t), r.t.source + 1, 0, <<>>) IN
         [string |-> TRUE, stop |-> loop.stop, sync |-> loop.sync]
    ELSE [string |-> FALSE, stop |-> 0, sync |-> TRUE]

\* while let Some(token) = self.next_token() { tokens.push(token); }
Push ==
    /\ pc = "tokenize"
    /\ LET r == next_token(Self) IN
       /\ r.ret # NoToken
       /\ Store(r.t)
       /\ tokens' = Append(tokens, r.ret)
    /\ entry' = source
    /\ lookahead' = StringTrace(Self)
    /\ UNCHANGED <<input, pc, calls, resume>>

\* next_token() returned None: the loop ends and tokenize() returns tokens
Return ==
    /\ pc = "tokenize"
    /\ LET r == next_token(Self) IN
       /\ r.ret = NoToken
       /\ Store(r.t)
    /\ pc' = "returned"
    /\ entry' = source
    /\ lookahead' = StringTrace(Self)
    /\ UNCHANGED <<input, tokens, calls, resume>>

\* the caller calls tokenize() again on the same Tokenizer: a new vector,
\* the same cursor
\* mutant of Again: the second call starts over from the first character
AgainRewound ==
    /\ pc = "returned"
    /\ calls < MaxCalls
    /\ calls' = calls + 1
    /\ resume' = source
    /\ tokens' = <<>>
    /\ pc' = "tokenize"
    /\ source' = 0
    /\ UNCHANGED <<input, current_col, current_line, token_start_col,
                   current_char, entry, lookahead>>

Again ==
    /\ pc = "returned"
    /\ calls < MaxCalls
    /\ calls' = calls + 1
    /\ resume' = source
    /\ tokens' = <<>>
    /\ pc' = "tokenize"
    /\ UNCHANGED <<input, source, current_col, current_line, token_start_col,
                   current_char, entry, lookahead>>

Next == Push \/ Return

NextAgain == Push \/ Return \/ Again

Spec == Init /\ [][Next]_vars

SpecNum == InitNum /\ [][Next]_vars

SpecStr == InitStr /\ [][Next]_vars

SpecLex == InitLex /\ [][Next]_vars

SpecPunct == InitPunct /\ [][Next]_vars

SpecCtl == InitCtl /\ [][Next]_vars

SpecAgain == InitLex /\ [][NextAgain]_vars

----------------------------------------------------------------------------
(* Vocabulary of the properties.  These describe the input text itself     *)
(* (its lexemes), independently of how the tokenizer scans it.             *)

AllDigits(s) == \A i \in 1..Len(s) : s[i] \in Digit

\* next_token() was called at least once
Called == entry >= 0

\* index of the first non-whitespace character the latest call met
\* (Len(input) + 1 when it met none)
FirstChar ==
    CHOOSE p \in (entry + 1)..(Len(input) + 1) :
        /\ \A i \in (entry + 1)..(p - 1) : input[i] \in Whitespace
        /\ p <= Len(input) => input[p] \notin Whitespace

CharAt(i) == IF i \in 1..Len(input) THEN input[i] ELSE None

\* index of the last digit of the run of digits that follows index i
\* (i itself when no digit follows)
RunEnd(i) ==
    CHOOSE j \in i..Len(input) :
        /\ \A k \in (i + 1)..j : input[k] \in Digit
        /\ CharAt(j + 1) \notin Digit

\* the latest call returned no token / returned the token Last
ReturnedNone == Called /\ pc = "returned"

ReturnedSome == Called /\ pc = "tokenize"

Last == tokens[Len(tokens)]

IsNumber(token) == token.token_type \in {"Integer", "Float"}

\* digits, or digits '.' digits
Mantissa(s) ==
    \E a \in 1..Len(s) :
        /\ AllDigits(SubSeq(s, 1, a))
        /\ \/ a = Len(s)
           \/ /\ a + 2 <= Len(s)
              /\ s[a + 1] = "."
              /\ AllDigits(SubSeq(s, a + 2, Len(s)))

StripMinus(s) == IF Len(s) > 0 /\ Head(s) = "-" THEN Tail(s) ELSE s

----------------------------------------------------------------------------
(* C1: an input made only of one or more digits tokenizes to exactly one   *)
(* token, Integer(input) at position 1.                                    *)
C1_DigitsOnlyInteger ==
    (pc = "returned" /\ Len(input) >= 1 /\ AllDigits(input))
        => tokens = <<Token("Integer", input, 1)>>

(* C2: an input of the form [-] digits '.' digits (nothing after the last  *)
(* digit) tokenizes to exactly one token, Float(input) at position 1.      *)
C2_FractionOnlyFloat ==
    (/\ pc = "returned"
     /\ Mantissa(StripMinus(input))
     /\ \E i \in 1..Len(input) : input[i] = ".")
        => tokens = <<Token("Float", input, 1)>>

(* C3: every emitted number token is Float exactly when its text has a     *)
(* fractional part ('.' followed by a digit) and Integer exactly when its  *)
(* text has no '.'.                                                        *)
HasDot(text) == \E i \in 1..Len(text) : text[i] = "."

HasFraction(text) ==
    \E i \in 1..(Len(text) - 1) : text[i] = "." /\ text[i + 1] \in Digit

C3_FloatIffFraction ==
    \A k \in 1..Len(tokens) :
        IsNumber(tokens[k]) =>
            /\ tokens[k].token_type = "Float" <=> HasFraction(tokens[k].text)
            /\ tokens[k].token_type = "Integer" <=> ~HasDot(tokens[k].text)

(* C4: when number scanning has consumed the integer part, the next        *)
(* character is '.', and no digit follows that '.', next_token() returns   *)
(* no token and tokenize() returns only the tokens emitted before the      *)
(* number.                                                                 *)
\* number scanning starts on a digit, or on the character after a '-'
ScansNumber ==
    /\ Called
    /\ \/ CharAt(FirstChar) \in Digit
       \/ CharAt(FirstChar) = "-" /\ FirstChar < Len(input)

IntegerPartEnd ==
    IF CharAt(FirstChar) = "-" THEN RunEnd(FirstChar + 1) ELSE RunEnd(FirstChar)

DotWithoutDigit ==
    /\ ScansNumber
    /\ CharAt(IntegerPartEnd + 1) = "."
    /\ CharAt(IntegerPartEnd + 2) \notin Digit

C4_DotWithoutDigitFails ==
    DotWithoutDigit =>
        /\ pc = "returned"
        /\ \A k \in 1..Len(tokens) : tokens[k].position < FirstChar

C4_Witness ==
    /\ DotWithoutDigit
    /\ pc = "returned"
    /\ Len(tokens) >= 1
    /\ CharAt(FirstChar) \in Digit
    /\ IntegerPartEnd > FirstChar
    /\ IntegerPartEnd + 2 <= Len(input)

(* C5: an exponent marker 'e' (after the integer part or after the         *)
(* fraction, with or without a sign) that no digit follows makes the scan  *)
(* fail: no Integer or Float whose text is a mantissa followed by 'e',     *)
(* 'e+' or 'e-' is ever emitted.                                           *)
DanglingExponent(text) ==
    LET s == StripMinus(text) IN
    \E m \in 1..Len(s) :
        /\ Mantissa(SubSeq(s, 1, m))
        /\ SubSeq(s, m + 1, Len(s)) \in {<<"e">>, <<"e", "+">>, <<"e", "-">>}

C5_NoDanglingExponent ==
    \A k \in 1..Len(tokens) :
        IsNumber(tokens[k]) => ~DanglingExponent(tokens[k].text)

(* C6: a lexeme digits 'e' sign digits without a fraction, followed by a   *)
(* delimiter, is emitted as one Integer token whose text is the lexeme.    *)
SignedExponentEnd ==
    LET e == RunEnd(FirstChar) + 1 IN
    IF /\ Called
       /\ CharAt(FirstChar) \in Digit
       /\ CharAt(e) = "e"
       /\ CharAt(e + 1) \in {"+", "-"}
       /\ CharAt(e + 2) \in Digit
       /\ CharAt(RunEnd(e + 2) + 1) \in {",", "]", "}", " "}
    THEN RunEnd(e + 2)
    ELSE 0

C6_SignedExponentInteger ==
    SignedExponentEnd > 0 =>
        /\ pc = "tokenize"
        /\ Last.token_type = "Integer"
        /\ Last.text = SubSeq(input, FirstChar, SignedExponentEnd)

(* C7: a '-' at the start of a token that no digit follows (end of input   *)
(* or any other character) is a malformed number: next_token() returns no  *)
(* token.                                                                  *)
BareMinus ==
    /\ Called
    /\ CharAt(FirstChar) = "-"
    /\ CharAt(FirstChar + 1) \notin Digit

C7_BareMinusFails == BareMinus => pc = "returned"

----------------------------------------------------------------------------
(* String literals, read off the input text: the literal opens at the      *)
(* quote at FirstChar and its body starts at the next index.               *)

OpensString == Called /\ CharAt(FirstChar) = "\""

\* a valid escape starts at the backslash at index i: its length, else 0
EscapeLength(i) ==
    IF CharAt(i + 1) \in SimpleEscape THEN 2
    ELSE IF CharAt(i + 1) = "u" /\ \A k \in 2..5 : CharAt(i + k) \in HexDigit THEN 6
    ELSE 0

\* index of the closing quote of a well-formed literal whose body continues
\* at index i: plain characters and valid escapes only; 0 when there is none
RECURSIVE ClosingQuote(_)
ClosingQuote(i) ==
    IF i > Len(input) THEN 0
    ELSE IF input[i] = "\"" THEN i
    ELSE IF input[i] = "\\"
    THEN IF EscapeLength(i) = 0 THEN 0 ELSE ClosingQuote(i + EscapeLength(i))
    ELSE IF input[i] \in Control THEN 0
    ELSE ClosingQuote(i + 1)

\* the body that continues at index i contains an invalid escape before its
\* closing quote
RECURSIVE InvalidEscape(_)
InvalidEscape(i) ==
    IF i > Len(input) THEN FALSE
    ELSE IF input[i] = "\"" THEN FALSE
    ELSE IF input[i] = "\\"
    THEN IF EscapeLength(i) = 0 THEN TRUE ELSE InvalidEscape(i + EscapeLength(i))
    ELSE InvalidEscape(i + 1)

\* an unescaped quote occurs at or after index i: a backslash escapes the
\* character that follows it
RECURSIVE UnescapedQuote(_)
UnescapedQuote(i) ==
    IF i > Len(input) THEN FALSE
    ELSE IF input[i] = "\"" THEN TRUE
    ELSE IF input[i] = "\\" THEN UnescapedQuote(i + 2)
    ELSE UnescapedQuote(i + 1)

(* C8: a string literal whose body has only plain characters and valid     *)
(* escapes, closed by an unescaped quote, is emitted as one String token   *)
(* whose value is the body exactly as written, escapes not decoded.        *)
C8_ValidStringVerbatim ==
    (OpensString /\ ClosingQuote(FirstChar + 1) > 0) =>
        /\ pc = "tokenize"
        /\ Last.token_type = "String"
        /\ Last.text = SubSeq(input, FirstChar + 1, ClosingQuote(FirstChar + 1) - 1)

C8_Witness ==
    /\ OpensString
    /\ ClosingQuote(FirstChar + 1) > 0
    /\ pc = "tokenize"
    /\ Last.text = <<"\\", "u", "a", "a", "a", "a">>

(* C9: a string body with an invalid escape (a backslash followed by a     *)
(* character outside the allowed set, or \u with fewer than four hex       *)
(* digits) never yields a token, whatever follows it.                      *)
C9_InvalidEscapeFails ==
    (OpensString /\ InvalidEscape(FirstChar + 1)) => pc = "returned"

(* C10: a string whose opening quote is followed by no unescaped quote     *)
(* before the end of the input never yields a token.                       *)
C10_UnterminatedFails ==
    (OpensString /\ ~UnescapedQuote(FirstChar + 1)) => pc = "returned"

----------------------------------------------------------------------------
\* index of the first unescaped quote at or after index i (a backslash
\* escapes the character that follows it); 0 when there is none
RECURSIVE FirstUnescapedQuote(_)
FirstUnescapedQuote(i) ==
    IF i > Len(input) THEN 0
    ELSE IF input[i] = "\"" THEN i
    ELSE IF input[i] = "\\" THEN FirstUnescapedQuote(i + 2)
    ELSE FirstUnescapedQuote(i + 1)

\* a control character lies between the opening quote at FirstChar and the
\* closing unescaped quote
ControlInBody ==
    /\ OpensString
    /\ \E c \in (FirstChar + 1)..Len(input) :
        /\ input[c] \in Control
        /\ c < FirstUnescapedQuote(FirstChar + 1)

HasControl(text) == \E i \in 1..Len(text) : text[i] \in Control

(* C11: a raw control character between a string's opening quote and its   *)
(* closing unescaped quote makes the scan fail: next_token() returns no    *)
(* token, tokenize() returns only the tokens emitted before the string,    *)
(* and no String token whose value has a control character is emitted.     *)
C11_ControlInStringFails ==
    /\ ControlInBody =>
        /\ pc = "returned"
        /\ \A k \in 1..Len(tokens) : tokens[k].position < FirstChar
    /\ \A k \in 1..Len(tokens) :
        tokens[k].token_type = "String" => ~HasControl(tokens[k].text)

----------------------------------------------------------------------------
\* the character a token of this type and text starts with
StartsWith(token, ch) ==
    CASE token.token_type = "String" -> ch = "\""
      [] IsNumber(token) -> ch = Head(token.text)
      [] OTHER -> ch \in {"{", "}", "[", "]", ":", ","} /\ Structural(ch) = token.token_type

(* C12: the position of every emitted token is the 1-based index, counted  *)
(* in characters from the start of the whole input, of the token's first   *)
(* character; newlines do not reset it and nothing scanned before the      *)
(* token disturbs it.                                                      *)
C12_PositionIsFirstCharIndex ==
    /\ (Called /\ pc = "tokenize" /\ Len(tokens) > 0) => Last.position = FirstChar
    /\ \A k \in 1..Len(tokens) :
        /\ tokens[k].position \in 1..Len(input)
        /\ StartsWith(tokens[k], input[tokens[k].position])
        /\ k > 1 => tokens[k - 1].position < tokens[k].position

C12_Witness ==
    /\ Called /\ pc = "tokenize" /\ Len(tokens) >= 2
    /\ Last.position = FirstChar
    /\ FirstChar > entry + 1
    /\ \E i \in 1..(FirstChar - 1) : input[i] = "\n"
    /\ tokens[1].token_type = "String"

----------------------------------------------------------------------------
StructuralChars == {"{", "}", "[", "]", ":", ","}

\* the token type the text of the claim gives each structural character
TypeOf(ch) ==
    IF ch = "{" THEN "ObjectStart"
    ELSE IF ch = "}" THEN "ObjectEnd"
    ELSE IF ch = "[" THEN "ArrayStart"
    ELSE IF ch = "]" THEN "ArrayEnd"
    ELSE IF ch = ":" THEN "Colon"
    ELSE "Comma"

\* one token per structural character from index i on, in input order
RECURSIVE StructuralTokens(_)
StructuralTokens(i) ==
    IF i > Len(input) THEN <<>>
    ELSE IF input[i] \in StructuralChars
    THEN <<Token(TypeOf(input[i]), <<>>, i)>> \o StructuralTokens(i + 1)
    ELSE StructuralTokens(i + 1)

OnlyPunctuation ==
    \A i \in 1..Len(input) : input[i] \in StructuralChars \cup Whitespace

(* C13: for an input made only of structural characters and whitespace,    *)
(* tokenize() returns exactly one token per structural character, in       *)
(* input order, of the matching type, at that character's 1-based index;   *)
(* whitespace produces no token.                                           *)
C13_StructuralTokens ==
    (pc = "returned" /\ OnlyPunctuation) => tokens = StructuralTokens(1)

C13_Witness ==
    /\ pc = "returned"
    /\ OnlyPunctuation
    /\ Len(tokens) = 2
    /\ tokens[1].position = 2
    /\ tokens[2].position = 4
    /\ tokens[2].token_type = "ArrayEnd"

----------------------------------------------------------------------------
\* the latest call met a character that starts no token
Unrecognized ==
    /\ Called
    /\ FirstChar <= Len(input)
    /\ input[FirstChar] \notin StructuralChars \cup Digit \cup {"-", "\""}

(* C14: when the first non-whitespace character at a token boundary is     *)
(* not a structural character, a digit, '-' or '"', next_token() returns   *)
(* no token and tokenize() stops there: it returns the tokens emitted      *)
(* before that character and none for anything after it.                   *)
C14_UnrecognizedStops ==
    Unrecognized =>
        /\ pc = "returned"
        /\ source = FirstChar
        /\ \A k \in 1..Len(tokens) : tokens[k].position < FirstChar

C14_Witness ==
    /\ Unrecognized
    /\ pc = "returned"
    /\ Len(tokens) >= 1
    /\ FirstChar < Len(input)
    /\ input[FirstChar + 1] \in StructuralChars \cup Digit

----------------------------------------------------------------------------
(* C15: whenever next_token() emits an Integer or Float, the cursor has    *)
(* consumed exactly the characters of the emitted text, the '-' included:  *)
(* the text is the input from the token's first character to the cursor,   *)
(* and the character that ended the number is still unread.                *)
EmittedNumber == Called /\ pc = "tokenize" /\ Len(tokens) > 0 /\ IsNumber(Last)

C15_NumberCursorDiscipline ==
    EmittedNumber =>
        /\ source - (FirstChar - 1) = Len(Last.text)
        /\ Last.text = SubSeq(input, FirstChar, source)

C15_Witness ==
    /\ EmittedNumber
    /\ Last.token_type = "Float"
    /\ Head(Last.text) \in Digit
    /\ Last.text[Len(Last.text)] \in Digit
    /\ \E i \in 1..Len(Last.text) : Last.text[i] = "e"
    /\ source < Len(input)
    /\ source - (FirstChar - 1) = Len(Last.text)

----------------------------------------------------------------------------
(* C16: throughout tokenize_string the cursor and the cloned iterator stay *)
(* in step after every loop iteration, also when handle_escapes fails; so  *)
(* whenever a String token is emitted, the quote consumed by the final     *)
(* advance of the cursor is the quote at which the iterator stopped.       *)
EmittedString ==
    Called /\ pc = "tokenize" /\ Len(tokens) > 0 /\ Last.token_type = "String"

C16_StringLockstep ==
    (Called /\ lookahead.string) =>
        /\ lookahead.sync
        /\ EmittedString => lookahead.stop = source

----------------------------------------------------------------------------
\* from index i on, the value has a quote only as the second character of
\* a backslash escape
RECURSIVE QuotesEscaped(_, _)
QuotesEscaped(text, i) ==
    IF i > Len(text) THEN TRUE
    ELSE IF text[i] = "\\" THEN QuotesEscaped(text, i + 2)
    ELSE IF text[i] = "\"" THEN FALSE
    ELSE QuotesEscaped(text, i + 1)

(* C17: the text of an emitted Integer or Float has no whitespace and no   *)
(* quote character; the value of an emitted String has a quote only as     *)
(* the second character of a backslash-quote escape.                       *)
C17_TextExcludesDelimiters ==
    \A k \in 1..Len(tokens) :
        /\ IsNumber(tokens[k]) =>
            \A i \in 1..Len(tokens[k].text) :
                tokens[k].text[i] \notin Whitespace \cup {"\""}
        /\ tokens[k].token_type = "String" => QuotesEscaped(tokens[k].text, 1)

----------------------------------------------------------------------------
(* C18: tokenize() terminates on every finite input: a next_token() call   *)
(* that returns a token has advanced the cursor by at least one character, *)
(* the cursor never moves backwards, so there are at most as many tokens   *)
(* as input characters, and the loop receives no token after at most       *)
(* Len(input) tokens: every iteration either ends the loop or strictly     *)
(* decreases the number of unread characters, which is never negative.     *)
C18_Terminates ==
    /\ [][/\ source' >= source
          /\ tokens' # tokens => source' > source
          /\ pc = "tokenize" =>
                \/ pc' = "returned"
                \/ Len(input) - source' < Len(input) - source]_vars
    /\ [](Len(tokens) <= source /\ source <= Len(input))

C18_Witness ==
    /\ pc = "returned"
    /\ Len(input) >= 2
    /\ Len(tokens) = Len(input)
    /\ source = Len(input)

RECURSIVE Occurrences(_, _)
Occurrences(s, c) ==
    IF s = <<>> THEN 0
    ELSE (IF Head(s) = c THEN 1 ELSE 0) + Occurrences(Tail(s), c)

(* C20: the exponent is recognised at most once per number: no emitted     *)
(* Integer or Float text contains more than one 'e'.                       *)
C20_ExponentAtMostOnce ==
    \A k \in 1..Len(tokens) :
        IsNumber(tokens[k]) => Occurrences(tokens[k].text, "e") <= 1

====
